---- MODULE Spec2Model ----
(***************************************************************************)
(* Model of the todo store: TodoDatabase (src/src/types.ts, the SQLite     *)
(* layer), TodoService (src/unnamed/part_001, validation and queries) and  *)
(* the update_todo tool handler of TodoMcpServer (src/src/types.ts).       *)
(*                                                                         *)
(* JavaScript strings are sequences of one-character strings, so that      *)
(* trim, toLowerCase, includes, JSON.stringify / JSON.parse, SQLite's LIKE *)
(* and SQLite's TEXT comparison are computed character by character.       *)
(* JavaScript and SQL values are tagged records, so that undefined, null,  *)
(* the empty string and a present value stay distinct.                     *)
(***************************************************************************)
EXTENDS Integers, Sequences, FiniteSets, TLC

(***************************************************************************)
(* Bounds of the model.                                                    *)
(***************************************************************************)
\* Number of mutating calls and clock ticks in a run.
MaxSteps == 3
\* Hours in a day of the reduced calendar (a timestamp is day, hour).
HoursPerDay == 2
\* Calls of the service that may be in progress at once, each at an await.
MaxCalls == 2

(***************************************************************************)
(* Values.                                                                 *)
(***************************************************************************)
Undef == [t |-> "undefined"]
Null == [t |-> "null"]
Str(s) == [t |-> "string", v |-> s]
Bool(b) == [t |-> "boolean", v |-> b]
Arr(a) == [t |-> "array", v |-> a]
Int01(n) == [t |-> "integer", v |-> n]

IsStr(x) == x.t = "string"
IsArr(x) == x.t = "array"

\* JavaScript truthiness of a value (if (x), x || y, x ? a : b).
Truthy(x) ==
    CASE x.t = "undefined" -> FALSE
      [] x.t = "null" -> FALSE
      [] x.t = "string" -> x.v # <<>>
      [] x.t = "boolean" -> x.v
      [] x.t = "integer" -> x.v # 0
      [] OTHER -> TRUE

\* x || y
OrElse(x, y) == IF Truthy(x) THEN x ELSE y

\* o.k of an object o: undefined when o has no own key k.
Get(o, k) == IF k \in DOMAIN o THEN o[k] ELSE Undef

\* { ...a, ...b }: every own key of b, present with undefined or not,
\* overrides the key of a.
Spread(a, b) ==
    [k \in (DOMAIN a) \cup (DOMAIN b) |-> IF k \in DOMAIN b THEN b[k] ELSE a[k]]

(***************************************************************************)
(* Strings.                                                                *)
(***************************************************************************)
\* UTF-16 code unit of a character (Array.prototype.sort, SQLite's BINARY
\* collation of TEXT).
Code(c) ==
    CASE c = " " -> 32 [] c = "\"" -> 34 [] c = "%" -> 37 [] c = "+" -> 43
      [] c = "," -> 44 [] c = "0" -> 48 [] c = "1" -> 49 [] c = "2" -> 50
      [] c = "3" -> 51 [] c = "4" -> 52 [] c = "5" -> 53 [] c = "6" -> 54
      [] c = "7" -> 55 [] c = "8" -> 56 [] c = "9" -> 57 [] c = "T" -> 84
      [] c = "W" -> 87 [] c = "Z" -> 90 [] c = "[" -> 91 [] c = "\\" -> 92
      [] c = "]" -> 93 [] c = "_" -> 95 [] c = "a" -> 97 [] c = "b" -> 98
      [] c = "h" -> 104 [] c = "t" -> 116 [] c = "w" -> 119 [] c = "x" -> 120
      [] c = "z" -> 122

\* Lower case of a character (String.prototype.toLowerCase; SQLite's LIKE
\* folds the case of ASCII letters).
LowerChar(c) ==
    CASE c = "T" -> "t" [] c = "W" -> "w" [] c = "Z" -> "z" [] OTHER -> c

toLowerCase(s) == [i \in 1..Len(s) |-> LowerChar(s[i])]

RECURSIVE trimStart(_)
trimStart(s) ==
    IF s # <<>> /\ Head(s) = " " THEN trimStart(Tail(s)) ELSE s

RECURSIVE trimEnd(_)
trimEnd(s) ==
    IF s # <<>> /\ s[Len(s)] = " " THEN trimEnd(SubSeq(s, 1, Len(s) - 1)) ELSE s

\* String.prototype.trim
trim(s) == trimEnd(trimStart(s))

\* String.prototype.includes
includes(s, sub) ==
    \E i \in 0..(Len(s) - Len(sub)) : SubSeq(s, i + 1, i + Len(sub)) = sub

\* a < b in code unit order.
RECURSIVE StrLess(_, _)
StrLess(a, b) ==
    IF b = <<>> THEN FALSE
    ELSE IF a = <<>> THEN TRUE
    ELSE IF Head(a) # Head(b) THEN Code(Head(a)) < Code(Head(b))
    ELSE StrLess(Tail(a), Tail(b))

StrLeq(a, b) == a = b \/ StrLess(a, b)

\* Array.from(set).sort(): the elements of S in ascending code unit order.
RECURSIVE SortStrings(_)
SortStrings(S) ==
    IF S = {} THEN <<>>
    ELSE LET m == CHOOSE x \in S : \A y \in S : StrLeq(x, y)
         IN <<m>> \o SortStrings(S \ {m})

Digit(n) ==
    CASE n = 0 -> "0" [] n = 1 -> "1" [] n = 2 -> "2" [] n = 3 -> "3"
      [] n = 4 -> "4" [] n = 5 -> "5" [] n = 6 -> "6" [] n = 7 -> "7"
      [] n = 8 -> "8" [] n = 9 -> "9"

IsDigit(c) == c \in {"0", "1", "2", "3", "4", "5", "6", "7", "8", "9"}

DigitVal(c) == Code(c) - Code("0")

(***************************************************************************)
(* JSON text of a tag array, SQLite's LIKE, and dates.                     *)
(***************************************************************************)
\* The characters of a JSON string literal: quote and backslash escaped.
RECURSIVE JSONescape(_)
JSONescape(s) ==
    IF s = <<>> THEN <<>>
    ELSE IF Head(s) \in {"\"", "\\"} THEN <<"\\", Head(s)>> \o JSONescape(Tail(s))
    ELSE <<Head(s)>> \o JSONescape(Tail(s))

RECURSIVE JSONelements(_)
JSONelements(a) ==
    IF a = <<>> THEN <<>>
    ELSE <<"\"">> \o JSONescape(Head(a)) \o <<"\"">>
         \o (IF Tail(a) = <<>> THEN <<>> ELSE <<",">>) \o JSONelements(Tail(a))

\* JSON.stringify of an array of strings; JSON.stringify(undefined) is
\* undefined.
JSONstringify(x) ==
    IF IsArr(x) THEN Str(<<"[">> \o JSONelements(x.v) \o <<"]">>) ELSE Undef

\* Reads a string literal whose opening quote precedes position i.
RECURSIVE JSONreadString(_, _, _)
JSONreadString(text, i, acc) ==
    IF text[i] = "\"" THEN [s |-> acc, next |-> i + 1]
    ELSE IF text[i] = "\\" THEN JSONreadString(text, i + 2, Append(acc, text[i + 1]))
    ELSE JSONreadString(text, i + 1, Append(acc, text[i]))

\* Reads the elements of an array from the opening quote at position i.
RECURSIVE JSONreadElements(_, _, _)
JSONreadElements(text, i, acc) ==
    LET r == JSONreadString(text, i + 1, <<>>)
    IN IF text[r.next] = "," THEN JSONreadElements(text, r.next + 1, Append(acc, r.s))
       ELSE Append(acc, r.s)

\* JSON.parse of the text of an array of strings.
JSONparse(text) ==
    IF text = <<"[", "]">> THEN <<>> ELSE JSONreadElements(text, 2, <<>>)

\* SQLite: s LIKE p. % matches any run of characters, _ any one character,
\* any other character matches itself, ASCII letters without regard to case.
RECURSIVE Like(_, _)
Like(s, p) ==
    IF p = <<>> THEN s = <<>>
    ELSE IF Head(p) = "%" THEN Like(s, Tail(p)) \/ (s # <<>> /\ Like(Tail(s), p))
    ELSE /\ s # <<>>
         /\ (Head(p) = "_" \/ LowerChar(Head(p)) = LowerChar(Head(s)))
         /\ Like(Tail(s), Tail(p))

\* new Date().toISOString() at instant n: day, "T", hour, "Z".
toISOString(n) == <<Digit(n \div HoursPerDay), "T", Digit(n % HoursPerDay), "Z">>

\* The forms of date string that new Date(s) parses: the date alone (midnight
\* UTC), the ISO timestamp in UTC, and a timestamp with an offset of k hours.
IsDateOnly(s) == Len(s) = 1 /\ IsDigit(s[1])
IsTimestamp(s) ==
    /\ Len(s) \in {4, 5}
    /\ IsDigit(s[1]) /\ s[2] = "T" /\ IsDigit(s[3]) /\ DigitVal(s[3]) < HoursPerDay
    /\ \/ Len(s) = 4 /\ s[4] = "Z"
       \/ Len(s) = 5 /\ s[4] = "+" /\ IsDigit(s[5])

\* isNaN(new Date(s).getTime())
IsInvalidDate(s) == ~(IsDateOnly(s) \/ IsTimestamp(s))

\* new Date(s).getTime() of a string new Date parses.
DateGetTime(s) ==
    IF IsDateOnly(s) THEN DigitVal(s[1]) * HoursPerDay
    ELSE DigitVal(s[1]) * HoursPerDay + DigitVal(s[3])
         - (IF Len(s) = 5 THEN DigitVal(s[5]) ELSE 0)

(***************************************************************************)
(* TodoDatabase: the todos table is a set of rows, one per id.             *)
(***************************************************************************)
low == <<"l", "o", "w">>
medium == <<"m", "e", "d", "i", "u", "m">>
high == <<"h", "i", "g", "h">>

\* Mutant: the default priority is low.
DefaultPriorityMutant == Str(low)

\* priority: input.priority || 'medium'
DefaultPriority == Str(medium)

\* The completed column: completed ? 1 : 0
CompletedColumn(x) == Int01(IF Truthy(x) THEN 1 ELSE 0)

\* What a call gives back: a value, or a thrown error; and the table after it.
Return(value, table) == [ok |-> TRUE, err |-> "", result |-> value, db |-> table]
Throw(message, table) == [ok |-> FALSE, err |-> message, result |-> Undef, db |-> table]

\* The value better-sqlite3 binds for a parameter: a string, a number or
\* null as it is, undefined as NULL.
Bind(x) == IF x = Undef THEN Null ELSE x

rowToTodo(row) ==
    [id |-> row.id,
     title |-> row.title,
     description |-> row.description,
     completed |-> Bool(Truthy(row.completed)),
     priority |-> row.priority,
     dueDate |-> row.due_date,
     tags |-> Arr(JSONparse(OrElse(row.tags, Str(<<"[", "]">>)).v)),
     createdAt |-> row.created_at,
     updatedAt |-> row.updated_at]

\* SELECT * FROM todos WHERE id = ?
RowsById(table, id) == {row \in table : row.id = Str(id)}

TodoDatabase_getTodoById(table, id) ==
    IF RowsById(table, id) = {} THEN Null
    ELSE rowToTodo(CHOOSE row \in RowsById(table, id) : TRUE)

\* createTodo(input) with randomUUID() = id and new Date() = n.
TodoDatabase_createTodo(table, input, id, n) ==
    LET todo == [id |-> Str(id),
                 title |-> Get(input, "title"),
                 description |-> Get(input, "description"),
                 completed |-> Bool(FALSE),
                 priority |-> OrElse(Get(input, "priority"), DefaultPriority),
                 dueDate |-> Get(input, "dueDate"),
                 tags |-> OrElse(Get(input, "tags"), Arr(<<>>)),
                 createdAt |-> Str(toISOString(n)),
                 updatedAt |-> Str(toISOString(n))]
        row == [id |-> Bind(todo.id),
                title |-> Bind(todo.title),
                description |-> Bind(OrElse(todo.description, Null)),
                completed |-> CompletedColumn(todo.completed),
                priority |-> Bind(todo.priority),
                due_date |-> Bind(OrElse(todo.dueDate, Null)),
                tags |-> Bind(JSONstringify(todo.tags)),
                created_at |-> Bind(todo.createdAt),
                updated_at |-> Bind(todo.updatedAt)]
    IN Return(todo, table \cup {row})

\* Mutant: the UPDATE statement sets created_at as well, to the instant of
\* the update.
UpdateParamsStampBoth(updated) ==
    [title |-> updated.title,
     description |-> OrElse(updated.description, Null),
     completed |-> CompletedColumn(updated.completed),
     priority |-> updated.priority,
     due_date |-> OrElse(updated.dueDate, Null),
     tags |-> JSONstringify(updated.tags),
     created_at |-> updated.updatedAt,
     updated_at |-> updated.updatedAt]

\* Mutant: the UPDATE statement is run with the default priority, as the todo
\* of createTodo is built, not with the merged todo's.
UpdateParamsMutant(updated) ==
    [title |-> updated.title,
     description |-> OrElse(updated.description, Null),
     completed |-> CompletedColumn(updated.completed),
     priority |-> DefaultPriority,
     due_date |-> OrElse(updated.dueDate, Null),
     tags |-> JSONstringify(updated.tags),
     updated_at |-> updated.updatedAt]

\* The values the UPDATE statement is run with, from the merged todo.
UpdateParams(updated) ==
    [title |-> updated.title,
     description |-> OrElse(updated.description, Null),
     completed |-> CompletedColumn(updated.completed),
     priority |-> updated.priority,
     due_date |-> OrElse(updated.dueDate, Null),
     tags |-> JSONstringify(updated.tags),
     updated_at |-> updated.updatedAt]

\* The UPDATE ... WHERE id = ? statement run with the merged todo on the table
\* as it is when the statement runs: the rows with the id are rewritten, and if
\* there is none nothing changes and nothing fails; updateTodo returns the
\* merged todo without looking at result.changes.
UpdateStatement(table, id, updated, undefinedBinds) ==
    LET params == UpdateParams(updated)
        rows == RowsById(table, id)
        Written(old) == [k \in DOMAIN old |->
                            IF k \in DOMAIN params THEN Bind(params[k]) ELSE old[k]]
    IN IF ~undefinedBinds /\ \E k \in DOMAIN params : params[k] = Undef
       THEN Throw("SQLite3 can only bind numbers, strings, bigints, buffers, and null", table)
       ELSE IF rows # {} /\ Bind(params.title) = Null
       THEN Throw("NOT NULL constraint failed: todos.title", table)
       ELSE Return(updated, (table \ rows) \cup {Written(old) : old \in rows})

\* updateTodo(id, input) with new Date() = n. Whether better-sqlite3 binds
\* undefined as NULL or rejects it with a TypeError is the library's choice
\* (undefinedBinds); title is NOT NULL.
TodoDatabase_updateTodo(table, id, input, n, undefinedBinds) ==
    LET existing == TodoDatabase_getTodoById(table, id)
        updated == [Spread(existing, input) EXCEPT !.updatedAt = Str(toISOString(n))]
        params == UpdateParams(updated)
        old == CHOOSE row \in RowsById(table, id) : TRUE
        row == [k \in DOMAIN old |-> IF k \in DOMAIN params THEN Bind(params[k]) ELSE old[k]]
    IN IF existing = Null THEN Return(Null, table)
       ELSE IF ~undefinedBinds /\ \E k \in DOMAIN params : params[k] = Undef
            THEN Throw("SQLite3 can only bind numbers, strings, bigints, buffers, and null", table)
       ELSE IF row.title = Null THEN Throw("NOT NULL constraint failed: todos.title", table)
       ELSE Return(updated, (table \ {old}) \cup {row})

\* Mutant: result.changes >= 0.
TodoDatabase_deleteTodoMutant(table, id) ==
    Return(Bool(TRUE), table \ RowsById(table, id))

\* DELETE FROM todos WHERE id = ?; result.changes > 0
TodoDatabase_deleteTodo(table, id) ==
    Return(Bool(RowsById(table, id) # {}), table \ RowsById(table, id))

(***************************************************************************)
(* TodoService.                                                            *)
(***************************************************************************)
\* x?.trim()
OptionalTrim(x) == IF IsStr(x) THEN Str(trim(x.v)) ELSE Undef

\* tags.filter(tag => tag.trim()).map(tag => tag.trim())
RECURSIVE FilterMapTrim(_)
FilterMapTrim(a) ==
    IF a = <<>> THEN <<>>
    ELSE (IF trim(Head(a)) # <<>> THEN <<trim(Head(a))>> ELSE <<>>)
         \o FilterMapTrim(Tail(a))

\* x?.filter(...).map(...)
OptionalTags(x) == IF IsArr(x) THEN Arr(FilterMapTrim(x.v)) ELSE Undef

\* if (dueDate) { isNaN(new Date(dueDate).getTime()) }
InvalidDueDate(x) == Truthy(x) /\ IsInvalidDate(x.v)

\* priority && !['low', 'medium', 'high'].includes(priority)
InvalidPriority(x) == Truthy(x) /\ x.v \notin {low, medium, high}

\* Mutant: the due date and the priority are checked after the todo is
\* inserted.
TodoService_createTodoMutant(table, input, id, n) ==
    LET created == TodoDatabase_createTodo(
                       table,
                       Spread(input,
                              [title |-> Str(trim(input.title.v)),
                               description |-> OptionalTrim(Get(input, "description")),
                               tags |-> OrElse(OptionalTags(Get(input, "tags")), Arr(<<>>))]),
                       id, n)
    IN IF ~Truthy(OptionalTrim(Get(input, "title")))
       THEN Throw("Todo title is required", table)
       ELSE IF InvalidDueDate(Get(input, "dueDate"))
       THEN Throw("Invalid due date format", created.db)
       ELSE IF InvalidPriority(Get(input, "priority"))
       THEN Throw("Priority must be low, medium, or high", created.db)
       ELSE created

TodoService_createTodo(table, input, id, n) ==
    IF ~Truthy(OptionalTrim(Get(input, "title")))
    THEN Throw("Todo title is required", table)
    ELSE IF InvalidDueDate(Get(input, "dueDate"))
    THEN Throw("Invalid due date format", table)
    ELSE IF InvalidPriority(Get(input, "priority"))
    THEN Throw("Priority must be low, medium, or high", table)
    ELSE TodoDatabase_createTodo(
             table,
             Spread(input,
                    [title |-> Str(trim(input.title.v)),
                     description |-> OptionalTrim(Get(input, "description")),
                     tags |-> OrElse(OptionalTags(Get(input, "tags")), Arr(<<>>))]),
             id, n)

\* Mutant: the title of an update is stored as given.
UpdateDataTitleAsGiven(input) ==
    [k \in DOMAIN input |->
        CASE k = "description" /\ input[k] # Undef -> OptionalTrim(input[k])
          [] k = "tags" /\ Truthy(input[k]) -> Arr(FilterMapTrim(input[k].v))
          [] OTHER -> input[k]]

\* The copy of the input with title, description and tags normalised.
UpdateData(input) ==
    [k \in DOMAIN input |->
        CASE k = "title" /\ Truthy(input[k]) -> Str(trim(input[k].v))
          [] k = "description" /\ input[k] # Undef -> OptionalTrim(input[k])
          [] k = "tags" /\ Truthy(input[k]) -> Arr(FilterMapTrim(input[k].v))
          [] OTHER -> input[k]]

\* Mutant: the fields are validated before the record is looked up.
TodoService_updateTodoMutant(table, id, input, n, undefinedBinds) ==
    IF trim(id) = <<>>
    THEN Throw("Todo ID is required", table)
    ELSE IF Get(input, "title") # Undef /\ trim(input.title.v) = <<>>
    THEN Throw("Todo title cannot be empty", table)
    ELSE IF InvalidDueDate(Get(input, "dueDate"))
    THEN Throw("Invalid due date format", table)
    ELSE IF InvalidPriority(Get(input, "priority"))
    THEN Throw("Priority must be low, medium, or high", table)
    ELSE IF TodoDatabase_getTodoById(table, id) = Null
    THEN Throw("Todo with ID not found", table)
    ELSE LET r == TodoDatabase_updateTodo(table, id, UpdateData(input), n, undefinedBinds)
         IN IF r.ok /\ r.result = Null THEN Throw("Failed to update todo", table) ELSE r

TodoService_updateTodo(table, id, input, n, undefinedBinds) ==
    IF trim(id) = <<>>
    THEN Throw("Todo ID is required", table)
    ELSE IF TodoDatabase_getTodoById(table, id) = Null
    THEN Throw("Todo with ID not found", table)
    ELSE IF Get(input, "title") # Undef /\ trim(input.title.v) = <<>>
    THEN Throw("Todo title cannot be empty", table)
    ELSE IF InvalidDueDate(Get(input, "dueDate"))
    THEN Throw("Invalid due date format", table)
    ELSE IF InvalidPriority(Get(input, "priority"))
    THEN Throw("Priority must be low, medium, or high", table)
    ELSE LET r == TodoDatabase_updateTodo(table, id, UpdateData(input), n, undefinedBinds)
         IN IF r.ok /\ r.result = Null THEN Throw("Failed to update todo", table) ELSE r

TodoService_deleteTodo(table, id) ==
    IF trim(id) = <<>>
    THEN Throw("Todo ID is required", table)
    ELSE IF TodoDatabase_getTodoById(table, id) = Null
    THEN Throw("Todo with ID not found", table)
    ELSE TodoDatabase_deleteTodo(table, id)

\* Mutant: complete toggles the flag.
TodoService_completeTodoMutant(table, id, n, undefinedBinds) ==
    TodoService_updateTodo(
        table, id,
        [completed |-> Bool(TodoDatabase_getTodoById(table, id) = Null
                            \/ ~Truthy(TodoDatabase_getTodoById(table, id).completed))],
        n, undefinedBinds)

TodoService_completeTodo(table, id, n, undefinedBinds) ==
    TodoService_updateTodo(table, id, [completed |-> Bool(TRUE)], n, undefinedBinds)

(***************************************************************************)
(* TodoMcpServer: the update_todo tool.                                    *)
(***************************************************************************)
\* The handler destructures its arguments and passes an object that has all
\* six keys, undefined for the arguments the request does not supply; an
\* error of the service becomes a reply with isError.
update_todo(table, args, n, undefinedBinds) ==
    TodoService_updateTodo(
        table, args.id.v,
        [title |-> Get(args, "title"),
         description |-> Get(args, "description"),
         completed |-> Get(args, "completed"),
         priority |-> Get(args, "priority"),
         dueDate |-> Get(args, "dueDate"),
         tags |-> Get(args, "tags")],
        n, undefinedBinds)

(***************************************************************************)
(* Queries.                                                                *)
(***************************************************************************)
\* The WHERE clause getAllTodos builds from the filter.
MatchesFilter(row, filter) ==
    filter # Undef =>
        /\ Get(filter, "completed") # Undef =>
               row.completed = CompletedColumn(filter.completed)
        /\ Truthy(Get(filter, "priority")) => row.priority = filter.priority
        /\ Truthy(Get(filter, "dueBefore")) =>
               row.due_date # Null /\ StrLeq(row.due_date.v, filter.dueBefore.v)
        /\ Truthy(Get(filter, "dueAfter")) =>
               row.due_date # Null /\ StrLeq(filter.dueAfter.v, row.due_date.v)
        /\ Truthy(Get(filter, "tag")) =>
               /\ row.tags # Null
               /\ Like(row.tags.v, <<"%", "\"">> \o filter.tag.v \o <<"\"", "%">>)

\* ORDER BY column: the orders SQLite may give the rows in, ascending or
\* descending; rows with equal keys come in either order.
RECURSIVE OrderBy(_, _, _)
OrderBy(rows, column, descending) ==
    IF rows = {} THEN {<<>>}
    ELSE LET first == {r \in rows : \A o \in rows :
                          IF descending THEN StrLeq(o[column].v, r[column].v)
                          ELSE StrLeq(r[column].v, o[column].v)}
         IN UNION {{<<r>> \o rest : rest \in OrderBy(rows \ {r}, column, descending)} :
                   r \in first}

\* rows.map(row => this.rowToTodo(row))
MapRowToTodo(rows) == [i \in 1..Len(rows) |-> rowToTodo(rows[i])]

\* The results getAllTodos(filter) may return.
TodoDatabase_getAllTodos(table, filter) ==
    {MapRowToTodo(rows) :
        rows \in OrderBy({row \in table : MatchesFilter(row, filter)}, "created_at", TRUE)}

\* The results getOverdueTodos() may return at instant n.
TodoDatabase_getOverdueTodos(table, n) ==
    {MapRowToTodo(rows) :
        rows \in OrderBy({row \in table :
                             /\ row.completed = Int01(0)
                             /\ row.due_date # Null
                             /\ StrLess(row.due_date.v, toISOString(n))},
                         "due_date", FALSE)}

\* The elements of an array, as a set.
Elements(a) == {a[i] : i \in 1..Len(a)}

\* Mutant: the tags are folded to lower case before they are collected.
TodoDatabase_getAllTagsMutant(table) ==
    LET texts == {row.tags : row \in {r \in table : r.tags # Null /\ r.tags # Str(<<"[", "]">>)}}
    IN SortStrings(UNION {{toLowerCase(tag) : tag \in Elements(JSONparse(text.v))} :
                          text \in texts})

TodoDatabase_getAllTags(table) ==
    LET texts == {row.tags : row \in {r \in table : r.tags # Null /\ r.tags # Str(<<"[", "]">>)}}
    IN SortStrings(UNION {Elements(JSONparse(text.v)) : text \in texts})

\* getTodosByTag(tag) of the service: the blank tag is refused, the tag is
\* trimmed.
TodoService_getTodosByTag(table, tag) ==
    IF trim(tag) = <<>> THEN {Throw("Tag is required", table)}
    ELSE {Return(res, table) :
             res \in TodoDatabase_getAllTodos(table, [tag |-> Str(trim(tag))])}

\* Mutant: the fields are not lower-cased before the search term is looked for.
SearchMatchesMutant(todo, searchTerm) ==
    \/ includes(todo.title.v, searchTerm)
    \/ IsStr(todo.description) /\ includes(todo.description.v, searchTerm)
    \/ \E i \in 1..Len(todo.tags.v) : includes(todo.tags.v[i], searchTerm)

\* The test of searchTodos on one todo.
SearchMatches(todo, searchTerm) ==
    \/ includes(toLowerCase(todo.title.v), searchTerm)
    \/ IsStr(todo.description) /\ includes(toLowerCase(todo.description.v), searchTerm)
    \/ \E i \in 1..Len(todo.tags.v) : includes(toLowerCase(todo.tags.v[i]), searchTerm)

\* The results searchTodos(query) may return.
TodoService_searchTodos(table, query) ==
    IF trim(query) = <<>> THEN TodoDatabase_getAllTodos(table, Undef)
    ELSE LET searchTerm == trim(toLowerCase(query))
             Test(todo) == SearchMatches(todo, searchTerm)
         IN {SelectSeq(allTodos, Test) : allTodos \in TodoDatabase_getAllTodos(table, Undef)}

\* Mutant: the record that is read is taken out of the table.
TodoService_getTodoByIdMutant(table, id) ==
    IF trim(id) = <<>> THEN Throw("Todo ID is required", table)
    ELSE Return(TodoDatabase_getTodoById(table, id), table \ RowsById(table, id))

TodoService_getTodoById(table, id) ==
    IF trim(id) = <<>> THEN Throw("Todo ID is required", table)
    ELSE Return(TodoDatabase_getTodoById(table, id), table)

\* A count of getStats, and the value of undefined++.
Count(n) == [t |-> "number", v |-> n]
NaN == [t |-> "NaN"]

\* acc[key]++ on a count, on NaN, or on a key acc does not have.
Increment(x) == IF x = Undef \/ x = NaN THEN NaN ELSE Count(x.v + 1)

\* The property key a priority is used as: the string, or String(null).
PriorityKey(p) == IF IsStr(p) THEN p.v ELSE <<"n", "u", "l", "l">>

\* allTodos.reduce((acc, todo) => { acc[todo.priority]++; return acc }, acc)
RECURSIVE CountByPriority(_, _)
CountByPriority(todos, acc) ==
    IF todos = <<>> THEN acc
    ELSE LET key == PriorityKey(Head(todos).priority)
         IN CountByPriority(
                Tail(todos),
                [k \in DOMAIN acc \cup {key} |->
                    IF k = key
                    THEN Increment(IF k \in DOMAIN acc THEN acc[k] ELSE Undef)
                    ELSE acc[k]])

\* getStats() from the results of getAllTodos() and getOverdueTodos(), which
\* Promise.all starts one after the other with nothing running in between.
TodoService_getStats(allTodos, overdueTodos) ==
    LET IsCompleted(todo) == Truthy(todo.completed)
        completed == Len(SelectSeq(allTodos, IsCompleted))
    IN [total |-> Len(allTodos),
        completed |-> completed,
        pending |-> Len(allTodos) - completed,
        overdue |-> Len(overdueTodos),
        byPriority |-> CountByPriority(
                           allTodos,
                           [k \in {low, medium, high} |-> Count(0)])]

(***************************************************************************)
(* TodoMcpServer: the list_todos and search_todos tools.                   *)
(***************************************************************************)
\* limit: z.number().min(1).max(100).default(20)
MinLimit == 1
MaxLimit == 100
DefaultLimit == 20

\* The limit the handler gets from the schema: the default when the request
\* has none; a request whose limit is out of range does not reach the handler.
LimitRefused(args) ==
    Get(args, "limit") # Undef /\ (args.limit.v < MinLimit \/ args.limit.v > MaxLimit)

LimitOf(args) == IF Get(args, "limit") = Undef THEN DefaultLimit ELSE args.limit.v

\* Mutant: todos.slice(-limit)
SliceMutant(todos, limit) ==
    SubSeq(todos, IF limit < Len(todos) THEN Len(todos) - limit + 1 ELSE 1, Len(todos))

\* todos.slice(0, limit)
Slice(todos, limit) ==
    SubSeq(todos, 1, IF limit < Len(todos) THEN limit ELSE Len(todos))

\* The todos a list_todos request may list, or its refusal.
list_todos(table, args) ==
    IF LimitRefused(args) THEN {Throw("Invalid arguments for tool list_todos", table)}
    ELSE {Return(Slice(todos, LimitOf(args)), table) :
             todos \in TodoDatabase_getAllTodos(
                           table,
                           [completed |-> Get(args, "completed"),
                            priority |-> Get(args, "priority"),
                            tag |-> Get(args, "tag")])}

\* The todos a search_todos request may list, or its refusal; the query has
\* at least one character.
search_todos(table, args) ==
    IF args.query.v = <<>> \/ LimitRefused(args)
    THEN {Throw("Invalid arguments for tool search_todos", table)}
    ELSE {Return(Slice(todos, LimitOf(args)), table) :
             todos \in TodoService_searchTodos(table, args.query.v)}

(***************************************************************************)
(* The inputs of the calls.                                                *)
(***************************************************************************)
EmptyObject == [k \in {} |-> Undef]

\* The ids calls are made with: the ids of the first two todos, and a blank.
TodoIds == {<<"1">>, <<"2">>}
BlankId == <<" ">>

CreateInputs ==
    {[title |-> Str(<<"a">>)],
     [title |-> Str(<<" ", "W">>), description |-> Str(<<" ">>),
      dueDate |-> Str(<<"1">>), tags |-> Arr(<< <<"W">>, <<" ", "h", " ">>, <<" ">> >>)],
     [title |-> Str(<<"b">>), description |-> Str(<<"W", "a">>), priority |-> Str(high),
      dueDate |-> Str(<<"1", "T", "0", "+", "2">>), tags |-> Arr(<< <<"w">> >>)],
     [title |-> Str(<<" ">>)],
     [title |-> Str(<<"a">>), dueDate |-> Str(<<"x">>)],
     [title |-> Str(<<"a">>), priority |-> Str(<<"H", "i", "g", "h">>)],
     [description |-> Str(<<"a">>)],
     [title |-> Str(<<"a">>), priority |-> Str(<<>>)],
     [title |-> Str(<<"c">>), priority |-> Str(low),
      dueDate |-> Str(<<"0", "T", "0", "+", "1">>)]}

UpdateInputs ==
    {EmptyObject,
     [title |-> Str(<<"b", " ">>)],
     [completed |-> Bool(FALSE)],
     [description |-> Str(<<>>), tags |-> Arr(<< <<"h">>, <<>> >>)],
     [title |-> Str(<<" ">>)],
     [priority |-> Str(<<>>)],
     [priority |-> Str(<<"H", "i", "g", "h">>)],
     [title |-> Str(<<"b">>), dueDate |-> Str(<<"x">>)],
     [dueDate |-> Str(<<"0", "T", "0", "+", "2">>)]}

\* Arguments of update_todo requests: the id and a subset of the fields.
UpdateTodoArgs ==
    {[id |-> Str(id), title |-> Str(<<"b">>)] : id \in TodoIds}
    \cup {[id |-> Str(id), completed |-> Bool(TRUE)] : id \in TodoIds}

\* Filters of getAllTodos: none, empty, and conditions alone and together.
Filters ==
    {Undef,
     EmptyObject,
     [completed |-> Bool(FALSE)],
     [completed |-> Bool(TRUE), priority |-> Str(medium)],
     [completed |-> Bool(FALSE), priority |-> Str(high)],
     [dueBefore |-> Str(<<"1">>)],
     [dueAfter |-> Str(<<"1">>)],
     [dueAfter |-> Str(<<"1", "T", "0", "Z">>)],
     [priority |-> Str(high), dueBefore |-> Str(<<"1", "T", "0", "Z">>),
      dueAfter |-> Str(<<"0", "T", "0", "Z">>)],
     [tag |-> Str(<<"w">>)],
     [completed |-> Bool(FALSE), tag |-> Str(<<"W">>)]}

\* Arguments of list_todos requests.
ListTodosArgs ==
    {EmptyObject,
     [limit |-> Count(1)],
     [limit |-> Count(2)],
     [completed |-> Bool(FALSE), limit |-> Count(1)],
     [priority |-> Str(medium), limit |-> Count(1)],
     [tag |-> Str(<<"w">>), limit |-> Count(1)],
     [limit |-> Count(0)],
     [limit |-> Count(101)]}

\* Arguments of search_todos requests.
SearchTodosArgs ==
    {[query |-> Str(<<"a">>)],
     [query |-> Str(<<"W">>), limit |-> Count(1)],
     [query |-> Str(<<" ">>), limit |-> Count(2)],
     [query |-> Str(<<>>), limit |-> Count(1)],
     [query |-> Str(<<"a">>), limit |-> Count(0)]}

\* Tags getTodosByTag is called with.
TagInputs == {<<"w">>, <<"h">>, <<"%">>, <<" ">>}

\* Queries searchTodos is called with.
Queries == {<<"W">>, <<" ", "a">>, <<"h">>, <<" ">>, <<>>}

(***************************************************************************)
(* State.                                                                  *)
(***************************************************************************)
VARIABLES
    db,      \* the todos table: a set of rows
    now,     \* the clock: the instant new Date() reads
    uuids,   \* the number of ids randomUUID() has given out
    steps,   \* mutating calls and clock ticks so far
    last,    \* the last call: operation, arguments, outcome, table before it
    calls    \* the calls in progress: where each is, and what it holds

vars == <<db, now, uuids, steps, last, calls>>

\* The calls that may be in progress, and one that has not been made.
Slots == 1..MaxCalls

Idle ==
    [op |-> "none", pc |-> "idle", id |-> <<>>, input |-> EmptyObject,
     data |-> EmptyObject, existing |-> Undef,
     ok |-> TRUE, err |-> "", result |-> Undef, changes |-> 0]

Call(op, id, input, out) ==
    [op |-> op, id |-> id, input |-> input, at |-> now,
     ok |-> out.ok, err |-> out.err, result |-> out.result, pre |-> db]

Init ==
    /\ db = {}
    /\ now = 0
    /\ uuids = 0
    /\ steps = 0
    /\ last = [op |-> "none", id |-> <<>>, input |-> EmptyObject, at |-> 0,
               ok |-> TRUE, err |-> "", result |-> Undef, pre |-> {}]
    /\ calls = [slot \in Slots |-> Idle]

\* A call that leaves the table as it was (a query, a refused call) is an
\* observation of the state it was made in: the calls that could follow it are
\* those that could be made in its place, so a run is explored as the calls
\* that change the table and the ticks, each state of which any call may
\* observe, and is not continued from an observation.
Observed == last.op \notin {"none", "tick"} /\ last.pre = db

\* A mutating call: the table becomes the outcome's, a step is counted.
Mutate(op, id, input, out) ==
    /\ steps < MaxSteps
    /\ db' = out.db
    /\ steps' = steps + 1
    /\ last' = Call(op, id, input, out)
    /\ now' = now
    /\ UNCHANGED calls

\* The clock advances between calls.
Tick ==
    /\ ~Observed
    /\ steps < MaxSteps
    /\ now' = now + 1
    /\ steps' = steps + 1
    /\ last' = [op |-> "tick", id |-> <<>>, input |-> EmptyObject, at |-> now,
                ok |-> TRUE, err |-> "", result |-> Undef, pre |-> db]
    /\ UNCHANGED <<db, uuids, calls>>

CreateTodo ==
    /\ ~Observed
    /\ \E input \in CreateInputs :
          LET out == TodoService_createTodo(db, input, <<Digit(uuids + 1)>>, now)
          IN /\ Mutate("createTodo", <<>>, input, out)
             /\ uuids' = IF out.ok THEN uuids + 1 ELSE uuids

UpdateTodo ==
    /\ ~Observed
    /\ \E id \in TodoIds \cup {BlankId}, input \in UpdateInputs :
          /\ Mutate("updateTodo", id, input, TodoService_updateTodo(db, id, input, now, TRUE))
          /\ UNCHANGED uuids

CompleteTodo ==
    /\ ~Observed
    /\ \E id \in TodoIds :
          /\ Mutate("completeTodo", id, EmptyObject, TodoService_completeTodo(db, id, now, TRUE))
          /\ UNCHANGED uuids

DeleteTodo ==
    /\ ~Observed
    /\ \E id \in TodoIds \cup {BlankId} :
          /\ Mutate("deleteTodo", id, EmptyObject, TodoService_deleteTodo(db, id))
          /\ UNCHANGED uuids

\* deleteTodo of the TodoDatabase, called with any id.
DatabaseDeleteTodo ==
    /\ ~Observed
    /\ \E id \in TodoIds :
          /\ Mutate("db.deleteTodo", id, EmptyObject, TodoDatabase_deleteTodo(db, id))
          /\ UNCHANGED uuids

\* An update_todo request.
UpdateTodoTool ==
    /\ ~Observed
    /\ \E args \in UpdateTodoArgs, undefinedBinds \in BOOLEAN :
          /\ Mutate("update_todo", args.id.v, args, update_todo(db, args, now, undefinedBinds))
          /\ UNCHANGED uuids

\* A query: the table is what the query leaves; the clock and the counters
\* stay as they are.
Read(op, id, input, out) ==
    /\ last' = Call(op, id, input, out)
    /\ db' = out.db
    /\ UNCHANGED <<now, uuids, steps, calls>>

GetTodoById ==
    /\ ~Observed
    /\ \E id \in TodoIds \cup {BlankId} :
          Read("getTodoById", id, EmptyObject, TodoService_getTodoById(db, id))

GetAllTodos ==
    /\ ~Observed
    /\ \E filter \in Filters :
          \E res \in TodoDatabase_getAllTodos(db, filter) :
              Read("getAllTodos", <<>>, filter, Return(res, db))

GetTodosByTag ==
    /\ ~Observed
    /\ \E tag \in TagInputs :
          \E out \in TodoService_getTodosByTag(db, tag) :
              Read("getTodosByTag", <<>>, [tag |-> Str(tag)], out)

GetOverdueTodos ==
    /\ ~Observed
    /\ \E res \in TodoDatabase_getOverdueTodos(db, now) :
          Read("getOverdueTodos", <<>>, EmptyObject, Return(res, db))

GetAllTags ==
    /\ ~Observed
    /\ Read("getAllTags", <<>>, EmptyObject, Return(TodoDatabase_getAllTags(db), db))

SearchTodos ==
    /\ ~Observed
    /\ \E query \in Queries :
          \E res \in TodoService_searchTodos(db, query) :
              Read("searchTodos", <<>>, [query |-> Str(query)], Return(res, db))

GetStats ==
    /\ ~Observed
    /\ \E allTodos \in TodoDatabase_getAllTodos(db, Undef) :
          \E overdueTodos \in TodoDatabase_getOverdueTodos(db, now) :
              Read("getStats", <<>>, EmptyObject,
                   Return(TodoService_getStats(allTodos, overdueTodos), db))

ListTodosTool ==
    /\ ~Observed
    /\ \E args \in ListTodosArgs :
          \E out \in list_todos(db, args) : Read("list_todos", <<>>, args, out)

SearchTodosTool ==
    /\ ~Observed
    /\ \E args \in SearchTodosArgs :
          \E out \in search_todos(db, args) : Read("search_todos", <<>>, args, out)

Next ==
    \/ Tick
    \/ CreateTodo
    \/ UpdateTodo
    \/ CompleteTodo
    \/ DeleteTodo
    \/ DatabaseDeleteTodo
    \/ UpdateTodoTool
    \/ GetTodoById
    \/ GetAllTodos
    \/ GetTodosByTag
    \/ GetOverdueTodos
    \/ GetAllTags
    \/ SearchTodos
    \/ GetStats
    \/ ListTodosTool
    \/ SearchTodosTool

Spec == Init /\ [][Next]_vars

(***************************************************************************)
(* Calls in progress. The methods are async: a call runs to its next await *)
(* in one go, and the other calls in progress may run to theirs before it  *)
(* goes on; the statements of better-sqlite3 run when they are called.     *)
(***************************************************************************)
\* The inputs of the updates made while other calls are in progress.
AsyncUpdateInputs ==
    {[title |-> Str(<<"b", " ">>)],
     [completed |-> Bool(TRUE)],
     [title |-> Str(<<" ">>)]}

\* A call that has returned: its value, or the error it has thrown.
Returned(call, out) ==
    [call EXCEPT !.pc = "returned", !.ok = out.ok, !.err = out.err, !.result = out.result]

\* The next call is made in the first slot that is free.
FirstIdle(slot) ==
    /\ calls[slot].pc = "idle"
    /\ \A other \in Slots : other < slot => calls[other].pc # "idle"

\* A step of a call in progress: the clock, the ids, the count of calls and
\* the last call made on its own stay as they are.
Step(slot, call, table) ==
    /\ calls' = [calls EXCEPT ![slot] = call]
    /\ db' = table
    /\ UNCHANGED <<now, uuids, steps, last>>

\* updateTodo(id, input) of the service is called: the id is checked, the
\* record is read, and the call waits (await this.db.getTodoById(id)).
UpdateTodoCall(slot) ==
    /\ ~Observed
    /\ steps < MaxSteps
    /\ FirstIdle(slot)
    /\ \E id \in TodoIds \cup {BlankId}, input \in AsyncUpdateInputs :
          LET call == [Idle EXCEPT !.op = "updateTodo", !.id = id, !.input = input]
          IN calls' = [calls EXCEPT ![slot] =
                 IF trim(id) = <<>>
                 THEN Returned(call, Throw("Todo ID is required", db))
                 ELSE [call EXCEPT !.pc = "service_getTodoById",
                                   !.existing = TodoDatabase_getTodoById(db, id)]]
    /\ steps' = steps + 1
    /\ UNCHANGED <<db, now, uuids, last>>

\* The service goes on with the record it has read: not found, the checks of
\* the fields, then updateTodo of the database, which reads the record and
\* waits (await this.getTodoById(id)).
UpdateTodoValidate(slot) ==
    LET call == calls[slot]
        input == call.input
    IN /\ call.op = "updateTodo" /\ call.pc = "service_getTodoById"
       /\ Step(slot,
               IF call.existing = Null
               THEN Returned(call, Throw("Todo with ID not found", db))
               ELSE IF Get(input, "title") # Undef /\ trim(input.title.v) = <<>>
               THEN Returned(call, Throw("Todo title cannot be empty", db))
               ELSE IF InvalidDueDate(Get(input, "dueDate"))
               THEN Returned(call, Throw("Invalid due date format", db))
               ELSE IF InvalidPriority(Get(input, "priority"))
               THEN Returned(call, Throw("Priority must be low, medium, or high", db))
               ELSE [call EXCEPT !.pc = "database_getTodoById",
                                 !.data = UpdateData(input),
                                 !.existing = TodoDatabase_getTodoById(db, call.id)],
               db)

\* updateTodo of the database goes on with the record it has read: null if
\* there was none, else the merged todo is written by the UPDATE statement
\* and returned, and the service waits for it (await this.db.updateTodo).
UpdateTodoWrite(slot) ==
    LET call == calls[slot]
        updated == [Spread(call.existing, call.data)
                        EXCEPT !.updatedAt = Str(toISOString(now))]
        out == IF call.existing = Null THEN Return(Null, db)
               ELSE UpdateStatement(db, call.id, updated, TRUE)
    IN /\ call.op = "updateTodo" /\ call.pc = "database_getTodoById"
       /\ Step(slot,
               [call EXCEPT !.pc = "service_updateTodo",
                            !.ok = out.ok, !.err = out.err, !.result = out.result,
                            !.changes = IF out.db # db THEN 1 ELSE 0],
               out.db)

\* The service goes on with what updateTodo of the database gave: its error,
\* "Failed to update" for null, else the merged todo, which the call returns.
UpdateTodoReturn(slot) ==
    LET call == calls[slot]
    IN /\ call.op = "updateTodo" /\ call.pc = "service_updateTodo"
       /\ Step(slot,
               IF call.ok /\ call.result = Null
               THEN Returned(call, Throw("Failed to update todo", db))
               ELSE [call EXCEPT !.pc = "returned"],
               db)

\* deleteTodo(id) of the service is called: the id is checked, the record is
\* read, and the call waits (await this.db.getTodoById(id)).
DeleteTodoCall(slot) ==
    /\ ~Observed
    /\ steps < MaxSteps
    /\ FirstIdle(slot)
    /\ \E id \in TodoIds :
          calls' = [calls EXCEPT ![slot] =
                       [Idle EXCEPT !.op = "deleteTodo", !.id = id,
                                    !.pc = "service_getTodoById",
                                    !.existing = TodoDatabase_getTodoById(db, id)]]
    /\ steps' = steps + 1
    /\ UNCHANGED <<db, now, uuids, last>>

\* The service goes on with the record it has read: not found, or the DELETE
\* statement, whose outcome the call returns.
DeleteTodoRun(slot) ==
    LET call == calls[slot]
        out == IF call.existing = Null THEN Throw("Todo with ID not found", db)
               ELSE TodoDatabase_deleteTodo(db, call.id)
    IN /\ call.op = "deleteTodo" /\ call.pc = "service_getTodoById"
       /\ Step(slot,
               [Returned(call, out) EXCEPT
                    !.changes = IF out.db # db THEN 1 ELSE 0],
               out.db)

AsyncNext ==
    \/ Tick
    \/ CreateTodo
    \/ \E slot \in Slots : UpdateTodoCall(slot)
    \/ \E slot \in Slots : UpdateTodoValidate(slot)
    \/ \E slot \in Slots : UpdateTodoWrite(slot)
    \/ \E slot \in Slots : UpdateTodoReturn(slot)
    \/ \E slot \in Slots : DeleteTodoCall(slot)
    \/ \E slot \in Slots : DeleteTodoRun(slot)

AsyncSpec == Init /\ [][AsyncNext]_vars

(***************************************************************************)
(* Properties.                                                             *)
(***************************************************************************)
TodoFields ==
    {"id", "title", "description", "completed", "priority", "dueDate", "tags",
     "createdAt", "updatedAt"}

\* The record the table holds under an id, as getTodoById reads it.
Stored(table, id) == TodoDatabase_getTodoById(table, id)

\* The records the table holds.
Records(table) == {rowToTodo(row) : row \in table}

\* A field that holds no value.
Absent(x) == x \in {Undef, Null}

\* Two values of a field are equal: both absent, or both present and the same.
SameField(x, y) == (Absent(x) /\ Absent(y)) \/ x = y

\* C1: a create call that supplies a non-blank title and no other field
\* succeeds and returns a todo with priority medium, completed false, no tags
\* and createdAt = updatedAt.
C1_CreateDefaults ==
    (/\ last.op = "createTodo"
     /\ DOMAIN last.input = {"title"}
     /\ trim(last.input.title.v) # <<>>)
    => /\ last.ok
       /\ last.result.priority = Str(medium)
       /\ last.result.completed = Bool(FALSE)
       /\ last.result.tags = Arr(<<>>)
       /\ last.result.createdAt = last.result.updatedAt

C1_Witness ==
    last.op = "createTodo" /\ DOMAIN last.input = {"title"} /\ last.ok

\* C2: right after a create call that succeeds, getById of the returned id
\* gives a record equal to the returned todo in every field, an absent field
\* absent and a present field present.
C2_RoundTrip ==
    (last.op = "createTodo" /\ last.ok)
    => LET got == Stored(db, last.result.id.v)
       IN /\ got # Null
          /\ \A k \in TodoFields : SameField(got[k], last.result[k])

\* C3: update(id, {}) on an existing id succeeds and changes only updatedAt:
\* every other field of the record is as before the call, updatedAt is the
\* instant of the call, and the other records are untouched.
C3_EmptyUpdateFrame ==
    (/\ last.op = "updateTodo"
     /\ last.input = EmptyObject
     /\ Stored(last.pre, last.id) # Null)
    => /\ last.ok
       /\ Stored(db, last.id) # Null
       /\ \A k \in TodoFields \ {"updatedAt"} :
              Stored(db, last.id)[k] = Stored(last.pre, last.id)[k]
       /\ Stored(db, last.id).updatedAt = Str(toISOString(last.at))
       /\ {row \in db : row.id # Str(last.id)} = {row \in last.pre : row.id # Str(last.id)}

C3_Witness ==
    /\ last.op = "updateTodo" /\ last.input = EmptyObject /\ last.ok
    /\ Stored(db, last.id).updatedAt # Stored(last.pre, last.id).updatedAt
    /\ Stored(db, last.id).priority = Str(high)

\* C4: an update_todo request on an existing id that supplies some of the
\* fields succeeds and leaves every field it does not supply as stored.
C4_PartialUpdateKeepsFields ==
    (last.op = "update_todo" /\ Stored(last.pre, last.id) # Null)
    => /\ last.ok
       /\ \A k \in (TodoFields \ {"updatedAt"}) \ DOMAIN last.input :
              Stored(db, last.id)[k] = Stored(last.pre, last.id)[k]

\* The ids of the todos of a query result.
ResultIds(res) == {res[i].id : i \in 1..Len(res)}

\* No query returns a todo with this id.
InNoQueryResult(table, id, n) ==
    /\ \A filter \in Filters : \A res \in TodoDatabase_getAllTodos(table, filter) :
           Str(id) \notin ResultIds(res)
    /\ \A res \in TodoDatabase_getOverdueTodos(table, n) : Str(id) \notin ResultIds(res)
    /\ \A query \in Queries : \A res \in TodoService_searchTodos(table, query) :
           Str(id) \notin ResultIds(res)

\* C5: delete of the store returns true iff a record with the id existed, and
\* then the record is removed and nothing else; after a successful delete
\* getById finds nothing and no query returns the id; delete of the service
\* on an id without a record throws not-found and leaves the table as it was.
C5_Delete ==
    /\ last.op = "db.deleteTodo" =>
           /\ last.result = Bool(Stored(last.pre, last.id) # Null)
           /\ db = {row \in last.pre : row.id # Str(last.id)}
    /\ (last.op \in {"db.deleteTodo", "deleteTodo"} /\ last.ok /\ last.result = Bool(TRUE)) =>
           /\ Stored(db, last.id) = Null
           /\ InNoQueryResult(db, last.id, now)
    /\ (last.op = "deleteTodo" /\ trim(last.id) # <<>> /\ Stored(last.pre, last.id) = Null) =>
           /\ ~last.ok
           /\ last.err = "Todo with ID not found"
           /\ db = last.pre

C5_Witness ==
    /\ last.op = "db.deleteTodo" /\ last.result = Bool(TRUE)
    /\ Cardinality(last.pre) = 2 /\ Cardinality(db) = 1

\* A condition of a filter is present.
Present(filter, k) == filter # Undef /\ Get(filter, k) # Undef

\* The conditions of a filter on a todo, dates in the order of their text.
SatisfiesFilterAsText(todo, filter) ==
    /\ Present(filter, "completed") => todo.completed = filter.completed
    /\ Present(filter, "priority") => todo.priority = filter.priority
    /\ Present(filter, "dueBefore") =>
           ~Absent(todo.dueDate) /\ StrLeq(todo.dueDate.v, filter.dueBefore.v)
    /\ Present(filter, "dueAfter") =>
           ~Absent(todo.dueDate) /\ StrLeq(filter.dueAfter.v, todo.dueDate.v)

\* The conditions of a filter on a todo, dates in the order of the instants
\* they denote.
SatisfiesFilter(todo, filter) ==
    /\ Present(filter, "completed") => todo.completed = filter.completed
    /\ Present(filter, "priority") => todo.priority = filter.priority
    /\ Present(filter, "dueBefore") =>
           /\ ~Absent(todo.dueDate)
           /\ DateGetTime(todo.dueDate.v) <= DateGetTime(filter.dueBefore.v)
    /\ Present(filter, "dueAfter") =>
           /\ ~Absent(todo.dueDate)
           /\ DateGetTime(todo.dueDate.v) >= DateGetTime(filter.dueAfter.v)

\* A query result holds each of these todos once and nothing else.
ReturnsExactly(res, todos) ==
    {res[i] : i \in 1..Len(res)} = todos /\ Len(res) = Cardinality(todos)

\* C6: getAll(filter), for a filter with no tag condition and date bounds
\* that are valid dates, returns exactly the records that satisfy every
\* condition the filter has: completed, priority, dueDate <= dueBefore,
\* dueDate >= dueAfter (bounds included, the due date being a point in time);
\* a record with no dueDate fails a date bound; with no filter or an empty
\* one every record is returned.
C6_FilterConjunction ==
    (last.op = "getAllTodos" /\ ~Present(last.input, "tag"))
    => ReturnsExactly(last.result,
                      {todo \in Records(db) : SatisfiesFilter(todo, last.input)})

\* Apart from the order of dates the WHERE clause is that conjunction: the
\* result is exactly the records that satisfy the conditions with the dates
\* compared as the stored text.
FilterConjunctionAsText ==
    (last.op = "getAllTodos" /\ ~Present(last.input, "tag"))
    => ReturnsExactly(last.result,
                      {todo \in Records(db) : SatisfiesFilterAsText(todo, last.input)})

\* C7: the tag filter is membership in the tags: getAll({tag: t}) and
\* getTodosByTag(t) return exactly the records one of whose tags is t.
C7_TagFilterExact ==
    (/\ last.op \in {"getAllTodos", "getTodosByTag"}
     /\ last.ok
     /\ DOMAIN last.input = {"tag"})
    => ReturnsExactly(last.result,
                      {todo \in Records(db) :
                          \E i \in 1..Len(todo.tags.v) : todo.tags.v[i] = trim(last.input.tag.v)})

\* C8: the overdue query at instant now returns exactly the records that are
\* not completed and have a dueDate earlier than now as a point in time.
C8_OverdueByInstant ==
    last.op = "getOverdueTodos"
    => ReturnsExactly(last.result,
                      {todo \in Records(db) :
                          /\ todo.completed = Bool(FALSE)
                          /\ ~Absent(todo.dueDate)
                          /\ DateGetTime(todo.dueDate.v) < last.at})

\* sub occurs in s.
IsSubstring(sub, s) ==
    \E i \in 1..(Len(s) + 1) : \E j \in (i - 1)..Len(s) : SubSeq(s, i, j) = sub

\* C9: search(q) with a non-blank q returns exactly the records whose title,
\* description (if it has one) or one of whose tags contains the trimmed,
\* lower-cased q, each lower-cased; with a blank q it returns what getAll
\* returns with no filter.
C9_Search ==
    last.op = "searchTodos"
    => LET q == trim(toLowerCase(last.input.query.v))
       IN IF q = <<>>
          THEN /\ last.result \in TodoDatabase_getAllTodos(db, Undef)
               /\ ReturnsExactly(last.result, Records(db))
          ELSE ReturnsExactly(last.result,
                   {todo \in Records(db) :
                       \/ IsSubstring(q, toLowerCase(todo.title.v))
                       \/ ~Absent(todo.description)
                          /\ IsSubstring(q, toLowerCase(todo.description.v))
                       \/ \E i \in 1..Len(todo.tags.v) :
                              IsSubstring(q, toLowerCase(todo.tags.v[i]))})

C9_Witness ==
    /\ last.op = "searchTodos"
    /\ last.input.query.v = <<" ", "a">>
    /\ Len(last.result) = 2
    /\ Cardinality(db) = 3
    /\ \E i \in 1..2 : last.result[i].title = Str(<<"b">>)

\* C10: tag enumeration returns the distinct tags of the stored records,
\* told apart by case, each once, in ascending order of their code units.
C10_AllTags ==
    last.op = "getAllTags"
    => /\ {last.result[i] : i \in 1..Len(last.result)}
              = UNION {{todo.tags.v[i] : i \in 1..Len(todo.tags.v)} : todo \in Records(db)}
       /\ \A i \in 1..Len(last.result) : \A j \in 1..Len(last.result) :
              i < j => StrLess(last.result[i], last.result[j])

C10_Witness ==
    /\ last.op = "getAllTags"
    /\ last.result = << <<"W">>, <<"h">>, <<"w">> >>

\* C11: stats() equals the aggregates of the current records: total is their
\* number, completed the number of completed ones, pending the rest, overdue
\* the number of those not completed whose dueDate is an instant before now
\* (so overdue <= pending), and byPriority has exactly the keys low, medium
\* and high, each with the number of records of that priority, which sum to
\* total; all are 0 on an empty store.
C11_Stats ==
    last.op = "getStats"
    => LET stats == last.result
           todos == Records(db)
           With(k) == {todo \in todos : todo.priority = Str(k)}
       IN /\ stats.total = Cardinality(todos)
          /\ stats.completed = Cardinality({todo \in todos : todo.completed = Bool(TRUE)})
          /\ stats.pending = stats.total - stats.completed
          /\ stats.overdue = Cardinality({todo \in todos :
                                             /\ todo.completed = Bool(FALSE)
                                             /\ ~Absent(todo.dueDate)
                                             /\ DateGetTime(todo.dueDate.v) < last.at})
          /\ stats.overdue <= stats.pending
          /\ DOMAIN stats.byPriority = {low, medium, high}
          /\ \A k \in {low, medium, high} :
                 stats.byPriority[k] = Count(Cardinality(With(k)))
          /\ Cardinality(With(low)) + Cardinality(With(medium)) + Cardinality(With(high))
                 = stats.total

\* An input a create or an update is to refuse: a title that is blank (or,
\* on create, absent), a priority that is a non-empty string other than low,
\* medium and high, a dueDate that is a non-empty string and no date.
RefusedFields(input, titleRequired) ==
    \/ IF Present(input, "title") THEN trim(input.title.v) = <<>> ELSE titleRequired
    \/ Present(input, "priority") /\ input.priority.v \notin {<<>>, low, medium, high}
    \/ Present(input, "dueDate") /\ input.dueDate.v # <<>> /\ IsInvalidDate(input.dueDate.v)

\* C12: a create or an update that is rejected leaves the store as it was (no
\* record added, removed or changed, no updatedAt re-stamped), and a create
\* with a blank or absent title, an unknown priority or an unparsable dueDate,
\* and an update with a blank id, or of an existing record with such a title,
\* priority or dueDate, is rejected with an error.
C12_RejectedLeavesStore ==
    /\ (last.op \in {"createTodo", "updateTodo"} /\ ~last.ok) => db = last.pre
    /\ (last.op = "createTodo" /\ RefusedFields(last.input, TRUE))
       => ~last.ok /\ last.err # "" /\ db = last.pre
    /\ (/\ last.op = "updateTodo"
        /\ \/ last.id = BlankId
           \/ Stored(last.pre, last.id) # Null /\ RefusedFields(last.input, FALSE))
       => ~last.ok /\ last.err # "" /\ db = last.pre

\* An update with an unparsable dueDate was refused and a record with a
\* valid title and that id is in the store.
C12_Witness ==
    /\ last.op = "updateTodo" /\ ~last.ok
    /\ last.err = "Invalid due date format"
    /\ Stored(db, last.id) # Null

\* C13: update, complete and delete on an id that has no record fail with the
\* not-found error and leave the store as it was; an update fails so also
\* when the fields it supplies are invalid.
C13_NotFoundFirst ==
    (/\ last.op \in {"updateTodo", "completeTodo", "deleteTodo"}
     /\ last.id # BlankId
     /\ Stored(last.pre, last.id) = Null)
    => /\ ~last.ok
       /\ last.err = "Todo with ID not found"
       /\ db = last.pre

\* An update with invalid fields, on an id with no record in a store that
\* holds another record, was answered with not-found.
C13_Witness ==
    /\ last.op = "updateTodo" /\ last.id # BlankId
    /\ Stored(last.pre, last.id) = Null /\ last.pre # {}
    /\ RefusedFields(last.input, FALSE)
    /\ last.err = "Todo with ID not found"

\* The records a search for q is to find (every record when q is blank).
SearchHits(todos, query) ==
    LET q == trim(toLowerCase(query))
    IN {todo \in todos :
           \/ q = <<>>
           \/ IsSubstring(q, toLowerCase(todo.title.v))
           \/ ~Absent(todo.description) /\ IsSubstring(q, toLowerCase(todo.description.v))
           \/ \E i \in 1..Len(todo.tags.v) : IsSubstring(q, toLowerCase(todo.tags.v[i]))}

\* res is the first min(limit, n) of the n matching records in the order of
\* createdAt, latest first: it has that many records, each matching and none
\* twice, in that order, and no matching record it leaves out was created
\* after one it holds.
FirstOf(res, matching, limit) ==
    /\ Len(res) = (IF limit < Cardinality(matching) THEN limit ELSE Cardinality(matching))
    /\ Len(res) <= limit
    /\ \A i \in 1..Len(res) : res[i] \in matching
    /\ \A i \in 1..Len(res) : \A j \in 1..Len(res) :
           i < j => res[i] # res[j] /\ StrLeq(res[j].createdAt.v, res[i].createdAt.v)
    /\ \A todo \in matching \ {res[i] : i \in 1..Len(res)} :
           \A i \in 1..Len(res) : ~StrLess(res[i].createdAt.v, todo.createdAt.v)

\* C14: list and search through the tools return the first min(limit, n)
\* records, in order, of the n records that match, for a limit from 1 to 100
\* or, when the request has none, 20; a limit outside 1..100 is refused. (The
\* list requests with a tag condition are held to the limit and the order
\* only: which records a tag matches is the matter of C7.)
C14_Limit ==
    /\ last.op \in {"list_todos", "search_todos"}
       => LET given == Present(last.input, "limit")
              limit == IF given THEN last.input.limit.v ELSE 20
          IN IF given /\ (limit < 1 \/ limit > 100) THEN ~last.ok
             ELSE last.ok => Len(last.result) <= limit
    /\ (last.op = "list_todos" /\ last.ok /\ ~Present(last.input, "tag"))
       => FirstOf(last.result,
                  {todo \in Records(db) : SatisfiesFilterAsText(todo, last.input)},
                  IF Present(last.input, "limit") THEN last.input.limit.v ELSE 20)
    /\ (last.op = "search_todos" /\ last.ok)
       => FirstOf(last.result,
                  SearchHits(Records(db), last.input.query.v),
                  IF Present(last.input, "limit") THEN last.input.limit.v ELSE 20)

\* A list request with limit 1 returned one of two records created at
\* different instants.
C14_Witness ==
    /\ last.op = "list_todos" /\ last.ok
    /\ last.input = [limit |-> Count(1)]
    /\ Len(last.result) = 1
    /\ \E todo \in Records(db) : StrLess(todo.createdAt.v, last.result[1].createdAt.v)

\* C15: complete(id) on an existing id does what update(id, {completed:
\* true}) does: it succeeds, the store is the one that update leaves, the
\* record is completed (also when it was before), its other fields but
\* updatedAt are as they were, the other records are untouched, the pending
\* view does not hold the record and the completed view does.
C15_CompleteIsUpdate ==
    (last.op = "completeTodo" /\ Stored(last.pre, last.id) # Null)
    => /\ last.ok
       /\ db = TodoService_updateTodo(last.pre, last.id, [completed |-> Bool(TRUE)],
                                      last.at, TRUE).db
       /\ Stored(db, last.id) # Null
       /\ last.result = Stored(db, last.id)
       /\ Stored(db, last.id).completed = Bool(TRUE)
       /\ \A k \in TodoFields \ {"completed", "updatedAt"} :
              Stored(db, last.id)[k] = Stored(last.pre, last.id)[k]
       /\ {row \in db : row.id # Str(last.id)} = {row \in last.pre : row.id # Str(last.id)}
       /\ \A res \in TodoDatabase_getAllTodos(db, [completed |-> Bool(FALSE)]) :
              Str(last.id) \notin ResultIds(res)
       /\ \A res \in TodoDatabase_getAllTodos(db, [completed |-> Bool(TRUE)]) :
              Str(last.id) \in ResultIds(res)

\* A record that was completed was completed again.
C15_Witness ==
    /\ last.op = "completeTodo" /\ last.ok
    /\ Stored(last.pre, last.id).completed = Bool(TRUE)
    /\ Stored(db, last.id).completed = Bool(TRUE)

\* A pending record was completed, next to another that stayed pending.
C15_WitnessPending ==
    /\ last.op = "completeTodo" /\ last.ok
    /\ Stored(last.pre, last.id).completed = Bool(FALSE)
    /\ \E todo \in Records(db) : todo.completed = Bool(FALSE)

\* A call has just returned: it had not before the step and has after it.
Returns(slot) == calls[slot].pc # "returned" /\ calls'[slot].pc = "returned"

\* C16: an update whose steps interleave with a delete of the same id is
\* atomic: when it returns a todo, the store then holds a record with that id
\* whose fields are those of the todo returned; when it returns an error, it
\* has changed nothing.
C16_UpdateAtomic ==
    [][\A slot \in Slots :
           (Returns(slot) /\ calls'[slot].op = "updateTodo")
           => IF calls'[slot].ok
              THEN /\ Stored(db', calls'[slot].id) # Null
                   /\ \A k \in TodoFields :
                          SameField(Stored(db', calls'[slot].id)[k], calls'[slot].result[k])
              ELSE calls'[slot].changes = 0]_vars

\* C17: with a clock that does not go back, a record's createdAt stays what
\* creation set it to, its updatedAt is never earlier after a call than it
\* was before it, and createdAt <= updatedAt in every state.
C17_Timestamps ==
    /\ \A todo \in Records(db) :
           DateGetTime(todo.createdAt.v) <= DateGetTime(todo.updatedAt.v)
    /\ \A todo \in Records(db) : \A old \in Records(last.pre) :
           todo.id = old.id
           => /\ todo.createdAt = old.createdAt
              /\ DateGetTime(old.updatedAt.v) <= DateGetTime(todo.updatedAt.v)

\* A record created at one instant was updated at a later one.
C17_Witness ==
    /\ last.op \in {"updateTodo", "completeTodo"} /\ last.ok
    /\ DateGetTime(Stored(last.pre, last.id).updatedAt.v)
           < DateGetTime(Stored(db, last.id).updatedAt.v)
    /\ Stored(db, last.id).createdAt = Stored(last.pre, last.id).updatedAt

\* Every record of the table has one of the three priorities.
PrioritiesValid(table) ==
    \A todo \in Records(table) : todo.priority \in {Str(low), Str(medium), Str(high)}

\* C18: the create, update, complete and delete calls of the service keep
\* every stored priority one of low, medium and high, and a create or an
\* update that supplies any other priority, the empty string and 'High'
\* included, is rejected with an error. (For an update, of a record that
\* exists: not-found comes first.)
C18_PriorityInvariant ==
    /\ (/\ last.op \in {"createTodo", "updateTodo", "completeTodo", "deleteTodo"}
        /\ PrioritiesValid(last.pre))
       => PrioritiesValid(db)
    /\ (/\ last.op \in {"createTodo", "updateTodo"}
        /\ last.op = "updateTodo" => Stored(last.pre, last.id) # Null
        /\ Present(last.input, "priority")
        /\ last.input.priority \notin {Str(low), Str(medium), Str(high)})
       => ~last.ok /\ last.err = "Priority must be low, medium, or high"

\* A title is blank: nothing but whitespace.
Blank(title) == \A i \in 1..Len(title) : title[i] = " "

\* C19: every stored title is non-empty and neither starts nor ends with
\* whitespace; a create or an update that succeeds with a title stores it
\* trimmed; a create with no title or a blank one, and an update of an
\* existing record with a blank one, is rejected and changes nothing.
C19_TitleTrimmed ==
    /\ \A todo \in Records(db) :
           /\ todo.title.v # <<>>
           /\ Head(todo.title.v) # " "
           /\ todo.title.v[Len(todo.title.v)] # " "
    /\ (last.op \in {"createTodo", "updateTodo"} /\ last.ok /\ Present(last.input, "title"))
       => /\ Stored(db, last.result.id.v).title = Str(trim(last.input.title.v))
          /\ last.result.title = Str(trim(last.input.title.v))
    /\ (/\ last.op \in {"createTodo", "updateTodo"}
        /\ last.op = "updateTodo" => Stored(last.pre, last.id) # Null
        /\ IF Present(last.input, "title") THEN Blank(last.input.title.v)
           ELSE last.op = "createTodo")
       => ~last.ok /\ db = last.pre

\* An update with a title that ends with a blank has stored it without.
C19_Witness ==
    /\ last.op = "updateTodo" /\ last.ok
    /\ last.input = [title |-> Str(<<"b", " ">>)]
    /\ Stored(db, last.id).title = Str(<<"b">>)
    /\ Stored(last.pre, last.id).title # Str(<<"b">>)

\* The todos of a result come latest created first.
LatestFirst(res) ==
    \A i \in 1..Len(res) : \A j \in 1..Len(res) :
        i < j => DateGetTime(res[j].createdAt.v) <= DateGetTime(res[i].createdAt.v)

\* The todos of a result come earliest due first.
EarliestDueFirst(res) ==
    \A i \in 1..Len(res) : \A j \in 1..Len(res) :
        i < j => DateGetTime(res[i].dueDate.v) <= DateGetTime(res[j].dueDate.v)

\* C20: every result of getAll, with a filter or without, and so of the
\* views and of search, is in the order of createdAt, latest first; the
\* result of the overdue query is in the order of dueDate, earliest first.
C20_Ordering ==
    /\ (last.op \in {"getAllTodos", "getTodosByTag", "searchTodos"} /\ last.ok)
       => LatestFirst(last.result)
    /\ last.op = "getOverdueTodos" => EarliestDueFirst(last.result)

\* The tags each trimmed, those that are then empty left out.
NormalisedTags(tags) ==
    LET NonEmpty(tag) == tag # <<>>
    IN SelectSeq([i \in 1..Len(tags) |-> trim(tags[i])], NonEmpty)

\* The id of the record a successful create or update is about.
Target == IF last.op = "createTodo" THEN last.result.id.v ELSE last.id

\* C21: after a create or an update that supplies tags the stored tags are
\* the supplied ones, each trimmed, without those that are empty once
\* trimmed; no stored tag is empty or has whitespace around it; a create
\* that supplies no tags stores none; an update that supplies no tags leaves
\* the stored tags as they were.
C21_TagNormalisation ==
    /\ \A todo \in Records(db) : \A i \in 1..Len(todo.tags.v) :
           todo.tags.v[i] # <<>> /\ trim(todo.tags.v[i]) = todo.tags.v[i]
    /\ (last.op \in {"createTodo", "updateTodo", "update_todo"} /\ last.ok)
       => IF Present(last.input, "tags")
          THEN Stored(db, Target).tags = Arr(NormalisedTags(last.input.tags.v))
          ELSE IF last.op = "createTodo"
          THEN Stored(db, Target).tags = Arr(<<>>)
          ELSE Stored(db, Target).tags = Stored(last.pre, Target).tags

\* The read operations: by id, getAll and the views, search, the tags, the
\* stats, and the list and search requests of the tools.
ReadOperations ==
    {"getTodoById", "getAllTodos", "getTodosByTag", "getOverdueTodos", "getAllTags",
     "searchTodos", "getStats", "list_todos", "search_todos"}

\* C22: a read operation, whether it succeeds or fails, leaves the store as
\* it was: the same records, each with the same fields, updatedAt included.
C22_ReadsLeaveStore ==
    last.op \in ReadOperations => db = last.pre

\* getById has returned one of two stored records.
C22_Witness ==
    /\ last.op = "getTodoById" /\ last.ok
    /\ last.result # Null
    /\ Cardinality(db) = 2

\* A read has failed on a store that holds a record.
C22_WitnessFailed ==
    /\ last.op \in ReadOperations /\ ~last.ok
    /\ db # {}

\* The value an update is to leave in a field it supplies: the title
\* trimmed, the others as given.
Supplied(input, k) == IF k = "title" THEN Str(trim(input[k].v)) ELSE input[k]

\* Two updates of one id that supply disjoint fields have both returned
\* successfully, and no other call is in progress or has been made.
BothUpdated(one, other) ==
    /\ one # other
    /\ \A slot \in {one, other} :
           /\ calls[slot].op = "updateTodo"
           /\ calls[slot].pc = "returned"
           /\ calls[slot].ok
    /\ calls[one].id = calls[other].id
    /\ DOMAIN calls[one].input \cap DOMAIN calls[other].input = {}
    /\ \A slot \in Slots \ {one, other} : calls[slot].pc = "idle"

\* C23: no update is lost: when two updates of the same record that supply
\* disjoint fields, their steps interleaved at the await points, have both
\* returned successfully, the stored record has the fields of both.
C23_NoLostUpdate ==
    \A one \in Slots : \A other \in Slots :
        BothUpdated(one, other)
        => /\ Stored(db, calls[one].id) # Null
           /\ \A slot \in {one, other} : \A k \in DOMAIN calls[slot].input :
                  Stored(db, calls[slot].id)[k] = Supplied(calls[slot].input, k)

====
